---------------------------- MODULE Spec2Model ----------------------------
(***************************************************************************)
(* The import session of src/src/pages/ImportIsoPage.tsx: the list of      *)
(* parsed records held by the ImportIsoPage component, the bulk import     *)
(* (handleImportAll), the scan-gated import (handleScanSubmit), remove,    *)
(* clear, file load, and the completions of the api.createItem requests.   *)
(*                                                                         *)
(* Execution model.  The page runs on the browser's event loop.  One       *)
(* action of this module is one task of that loop: a user event handler    *)
(* run up to its first suspension, or the arrival of a network response    *)
(* together with the chain of promise continuations it triggers (an        *)
(* `await` that resumes runs as a microtask, before any further event).    *)
(* A handler reads the component state of the latest render; an async      *)
(* handler keeps the `records` array it captured when it was invoked.      *)
(* setRecords(prev => f(prev)) updates are applied in the order they are   *)
(* queued, so they are modelled as applied at once.                        *)
(*                                                                         *)
(* Strings are sequences of one-character strings, so that trim() is a     *)
(* computation and not the identity.                                       *)
(*                                                                         *)
(* The decoder functions of the same file (getSubfield,                    *)
(* buildRecordFromFields and the title filter of parseISO2709 and          *)
(* parseMARCXML) are operators; SpecGetSubfield and SpecNormalize apply    *)
(* them to inputs drawn from bounded sets, with the session left in its    *)
(* initial state.                                                          *)
(***************************************************************************)
EXTENDS Integers, Sequences, FiniteSets, TLC

\* ------------------------------------------------------------------ bounds
\* Largest number of records one file decodes to.
MaxRecs == 2
\* Number of files selected in one behaviour.
MaxLoads == 2
\* Number of async handlers (bulk runs, scan imports) suspended at once.
MaxTasks == 2

\* Longest raw field payload given to getSubfield.
MaxPayloadLen == 4

\* Largest number of tags present in a field store given to the normalizer.
MaxFields == 2

\* Largest number of raw records in a buffer given to parseISO2709.
MaxBufRecs == 3

\* Longest leader given to buildRecordFromFields for the media type.
MaxLeaderLen == 8

\* ------------------------------------------------------------ value domains
\* The value of an optional string attribute that is not set.
Undefined == <<"undefined">>

EmptyStr == <<>>

\* Identifications the decoders produce for the records of a file: they come
\* out of getSubfield, which trims, or are absent (no 010/020 field).
Idents == {<<"a">>, <<"b">>, Undefined}

\* What the operator types (or the scanner sends) into the scan input.
ScanInputs == {<<"a">>, <<" ", "a">>, <<"b">>}

\* Item identifiers the server may answer with.
ItemIds == {7, 8}

\* importedId of a record that has none.
NoItemId == 0

\* A settled api.createItem call: resolved with an item, or rejected.
Responses == [ok : {TRUE}, id : ItemIds] \cup {[ok |-> FALSE, id |-> NoItemId]}

\* t('common.error'): the translated message, as a string of one symbol.
GenericError == <<"common.error">>

\* type FileFormat, in the order of FORMAT_OPTIONS
FileFormats == <<"iso2709", "marcxml">>

\* type Encoding
Encodings == {"utf-8", "iso-8859-1", "iso-8859-15", "windows-1252"}

FormatLabelOfFirst(format) == <<"importMarc.formats", FileFormats[1]>>

\* FORMAT_OPTIONS.find(f => f.value === fileFormat)?.label
FormatLabel(format) ==
    LET hits == {k \in DOMAIN FileFormats : FileFormats[k] = format}
    IN  IF hits = {} THEN Undefined
        ELSE <<"importMarc.formats", FileFormats[CHOOSE k \in hits : \A j \in hits : k <= j]>>

\* t('importMarc.noRecordsFound', { format: <label>, encoding })
NoRecordsFound(options) ==
    <<"importMarc.noRecordsFound", FormatLabel(options.format), options.encoding>>

\* t('importMarc.readError')
ReadError == <<"importMarc.readError">>

\* No decoder function is being applied.
NoCall == [fn |-> "none"]

\* The subfield delimiter '\x1F'.
US == "US"

\* The characters of raw field payloads: the delimiter, two characters that
\* serve as subfield codes, indicators and text, and the blank.
PayloadChars == {US, "a", "b", " "}

\* The codes getSubfield is asked for.
SubfieldCodes == {"a", "b"}

\* The results parseFile can return: sequences of identifications, one per
\* record that passed the title filter.
RECURSIVE SeqsUpTo(_, _)
SeqsUpTo(S, n) ==
    IF n = 0 THEN {<<>>}
    ELSE LET shorter == SeqsUpTo(S, n - 1)
         IN  shorter \cup {Append(s, x) : s \in {q \in shorter : Len(q) = n - 1}, x \in S}

ParsedFiles == SeqsUpTo(Idents, MaxRecs)

\* The raw field payloads getSubfield is applied to.
Payloads == SeqsUpTo(PayloadChars, MaxPayloadLen)

VARIABLES
    records,         \* useState<ParsedRecord[]>
    fileName,        \* useState<string>
    isLoading,       \* useState(false)
    parseError,      \* useState('')
    isImporting,     \* useState(false)
    importProgress,  \* useState({ current, total })
    scanMode,        \* useState(false)
    scanInput,       \* useState('')
    scanError,       \* useState('')
    tasks,           \* the suspended async handlers (handleImportAll, handleScanSubmit)
    requests,        \* api.createItem calls that have not settled yet
    loadsInFlight,   \* handleFileSelect invocations awaiting parseFile
    now,             \* Date.now(), as the number of parses done so far
    fileFormat,      \* useState<FileFormat>('iso2709')
    encoding,        \* useState<Encoding>('utf-8')
    loadOptions,     \* the (fileFormat, encoding) each awaiting handleFileSelect captured
    call             \* a decoder function applied to an input, and its result

vars == <<records, fileName, isLoading, parseError, isImporting, importProgress,
          scanMode, scanInput, scanError, tasks, requests, loadsInFlight, now,
          fileFormat, encoding, loadOptions, call>>

\* ------------------------------------------------------------------ strings
IsSpace(c) == c = " "

RECURSIVE TrimStart(_)
TrimStart(s) ==
    IF s = <<>> THEN s
    ELSE IF IsSpace(Head(s)) THEN TrimStart(Tail(s)) ELSE s

RECURSIVE TrimEnd(_)
TrimEnd(s) ==
    IF s = <<>> THEN s
    ELSE IF IsSpace(s[Len(s)]) THEN TrimEnd(SubSeq(s, 1, Len(s) - 1)) ELSE s

\* String.prototype.trim
Trim(s) == TrimEnd(TrimStart(s))

\* ------------------------------------------------------------------ records
BuildRecordNoIndex(index, time, ident) ==
    [id |-> <<1, time>>, identification |-> ident, status |-> "pending",
     error |-> EmptyStr, importedId |-> NoItemId]

\* buildRecordFromFields: the record of positional index `index`, built at
\* time `time`, with the identification the normalizer found.
BuildRecord(index, time, ident) ==
    [id |-> <<index, time>>, identification |-> ident, status |-> "pending",
     error |-> EmptyStr, importedId |-> NoItemId]

BuildRecords(parsed, time) ==
    [k \in 1..Len(parsed) |-> BuildRecord(k, time, parsed[k])]

SetRecordsAppended(rs, parsed, time) == rs \o BuildRecords(parsed, time)

\* setRecords(parsed): the session becomes the decoded records, whatever
\* `rs` it held.
SetRecords(rs, parsed, time) == BuildRecords(parsed, time)

\* Number.prototype.toString of a non-negative integer, as its decimal digits.
RECURSIVE Digits(_)
Digits(n) ==
    LET d == <<"0", "1", "2", "3", "4", "5", "6", "7", "8", "9">>[(n % 10) + 1]
    IN  IF n < 10 THEN <<d>> ELSE Append(Digits(n \div 10), d)

\* `record-${index}-${Date.now()}`: the string the pair kept in `id` stands for.
IdString(id) == <<"record", "-">> \o Digits(id[1]) \o <<"-">> \o Digits(id[2])

IsPending(r) == r.status = "pending"

PendingRecordsSkipFirst(rs) ==
    LET p == SelectSeq(rs, IsPending) IN IF p = <<>> THEN p ELSE Tail(p)

\* records.filter(r => r.status === 'pending')
PendingRecords(rs) == SelectSeq(rs, IsPending)

\* prev.map(r => r.id === id ? { ...r, status: 'importing' } : r)
MarkImporting(rs, id) ==
    [k \in DOMAIN rs |->
        IF rs[k].id = id THEN [rs[k] EXCEPT !.status = "importing"] ELSE rs[k]]

MarkImportedWrongId(rs, id, itemId) ==
    [k \in DOMAIN rs |->
        IF rs[k].id = id
        THEN [rs[k] EXCEPT !.status = "imported", !.importedId = rs[k].id[1]]
        ELSE rs[k]]

MarkImportedNoSpread(rs, id, itemId) ==
    [k \in DOMAIN rs |->
        IF rs[k].id = id
        THEN [id |-> id, identification |-> Undefined, status |-> "imported",
              error |-> EmptyStr, importedId |-> itemId]
        ELSE rs[k]]

\* prev.map(r => r.id === id ? { ...r, status: 'imported', importedId: item.id } : r)
MarkImported(rs, id, itemId) ==
    [k \in DOMAIN rs |->
        IF rs[k].id = id
        THEN [rs[k] EXCEPT !.status = "imported", !.importedId = itemId]
        ELSE rs[k]]

MarkErrorUpsert(rs, id) ==
    IF \E k \in DOMAIN rs : rs[k].id = id
    THEN [k \in DOMAIN rs |->
            IF rs[k].id = id
            THEN [rs[k] EXCEPT !.status = "error", !.error = GenericError]
            ELSE rs[k]]
    ELSE Append(rs, [id |-> id, identification |-> Undefined, status |-> "error",
                     error |-> GenericError, importedId |-> NoItemId])

\* prev.map(r => r.id === id ? { ...r, status: 'error', error: t('common.error') } : r)
MarkError(rs, id) ==
    [k \in DOMAIN rs |->
        IF rs[k].id = id
        THEN [rs[k] EXCEPT !.status = "error", !.error = GenericError]
        ELSE rs[k]]

\* The setRecords of importRecord once createItem has settled with resp.
ApplyResult(rs, id, resp) ==
    IF resp.ok THEN MarkImported(rs, id, resp.id) ELSE MarkError(rs, id)

PropagatesRejection(resp) == ~resp.ok

\* importRecord wraps the call in try/catch: no outcome reaches its caller
\* as an exception.
Propagates(resp) == FALSE

\* prev.filter(r => r.id !== id)
RemoveById(rs, id) == SelectSeq(rs, LAMBDA r : r.id # id)


\* pendingCount = records.filter(r => r.status === 'pending').length
PendingCount(rs) == Cardinality({k \in DOMAIN rs : rs[k].status = "pending"})

FindMatchLast(rs, isbn) ==
    LET hits == {k \in DOMAIN rs : rs[k].status = "pending" /\ rs[k].identification = isbn}
    IN  IF hits = {} THEN 0 ELSE CHOOSE k \in hits : \A j \in hits : j <= k

FindMatchAnyStatus(rs, isbn) ==
    LET hits == {k \in DOMAIN rs : rs[k].identification = isbn}
    IN  IF hits = {} THEN 0 ELSE CHOOSE k \in hits : \A j \in hits : k <= j

\* records.find(r => r.status === 'pending' && r.identification === isbn):
\* the index of the first such record, 0 when find returns undefined.
FindMatch(rs, isbn) ==
    LET hits == {k \in DOMAIN rs : rs[k].status = "pending" /\ rs[k].identification = isbn}
    IN  IF hits = {} THEN 0 ELSE CHOOSE k \in hits : \A j \in hits : k <= j

\* t('importMarc.isbnNotFound', { isbn })
NotFound(isbn) == <<"importMarc.isbnNotFound">> \o isbn

\* -------------------------------------------------------------------- tasks
IdleTask == [kind |-> "idle", snap |-> <<>>, i |-> 0, called |-> <<>>, stale |-> 0]

FreeSlots == {t \in 1..MaxTasks : tasks[t].kind = "idle"}

FreeSlot == CHOOSE t \in FreeSlots : \A u \in FreeSlots : t <= u

Request(t, id) == [task |-> t, rec |-> id]

Ids(rs) == [k \in DOMAIN rs |-> rs[k].id]

CallsWithoutAwait(t, ids) == {Request(t, ids[k]) : k \in DOMAIN ids}

\* The createItem calls handleImportAll has issued when it first suspends:
\* the loop body awaits importRecord, so only the first record's.
CallsBeforeAwait(t, ids) == {Request(t, ids[1])}

NextOfRunLive(task, rs) ==
    IF PendingRecords(rs) # <<>> THEN PendingRecords(rs)[1].id ELSE task.snap[task.i + 1]

\* pendingRecords[i] of the for loop of handleImportAll: the loop indexes the
\* array the handler filtered when it was invoked, whatever `rs` holds now.
NextOfRun(task, rs) == task.snap[task.i + 1]

\* -------------------------------------------------------------------- Init
InitSession ==
    /\ records = <<>>
    /\ fileName = ""
    /\ isLoading = FALSE
    /\ parseError = EmptyStr
    /\ isImporting = FALSE
    /\ importProgress = [current |-> 0, total |-> 0]
    /\ scanMode = FALSE
    /\ scanInput = EmptyStr
    /\ scanError = EmptyStr
    /\ tasks = [t \in 1..MaxTasks |-> IdleTask]
    /\ requests = {}
    /\ loadsInFlight = 0
    /\ now = 0
    /\ fileFormat = "iso2709"
    /\ encoding = "utf-8"
    /\ loadOptions = <<>>

Init == InitSession /\ call = NoCall

\* -------------------------------------------------------------- file load
\* The upload card (drop zone and file input) is rendered only while
\* records.length === 0.
UploadCardShown == Len(records) = 0

\* The handlers awaiting parseFile, without the h-th.
WithoutLoad(loads, h) ==
    [k \in 1..(Len(loads) - 1) |-> IF k < h THEN loads[k] ELSE loads[k + 1]]

\* The options panel is part of the upload card.
\* onChange={(e) => setFileFormat(e.target.value as FileFormat)}
SetFileFormat(format) ==
    /\ UploadCardShown
    /\ format # fileFormat
    /\ fileFormat' = format
    /\ UNCHANGED <<records, fileName, isLoading, parseError, isImporting,
                   importProgress, scanMode, scanInput, scanError, tasks, requests,
                   loadsInFlight, now, encoding, loadOptions, call>>

\* onChange={(e) => setEncoding(e.target.value as Encoding)}
SetEncoding(enc) ==
    /\ UploadCardShown
    /\ enc # encoding
    /\ encoding' = enc
    /\ UNCHANGED <<records, fileName, isLoading, parseError, isImporting,
                   importProgress, scanMode, scanInput, scanError, tasks, requests,
                   loadsInFlight, now, fileFormat, loadOptions, call>>

\* handleFileSelect up to `await parseFile(...)`.
HandleFileSelect ==
    /\ UploadCardShown
    /\ now + loadsInFlight < MaxLoads
    /\ isLoading' = TRUE
    /\ parseError' = EmptyStr
    /\ fileName' = "file.mrc"
    /\ loadsInFlight' = loadsInFlight + 1
    /\ loadOptions' = Append(loadOptions, [format |-> fileFormat, encoding |-> encoding])
    /\ UNCHANGED <<records, isImporting, importProgress, scanMode, scanInput,
                   scanError, tasks, requests, now, fileFormat, encoding, call>>

\* handleFileSelect after parseFile resolved with the decoded records.
FileParsed(parsed) ==
    /\ loadsInFlight > 0
    /\ loadsInFlight' = loadsInFlight - 1
    /\ now' = now + 1
    /\ \E h \in DOMAIN loadOptions :
          /\ loadOptions' = WithoutLoad(loadOptions, h)
          /\ IF Len(parsed) = 0
             THEN /\ parseError' = NoRecordsFound(loadOptions[h])
                  /\ records' = records
             ELSE /\ records' = SetRecords(records, parsed, now + 1)
                  /\ parseError' = parseError
    /\ isLoading' = FALSE
    /\ UNCHANGED <<fileName, isImporting, importProgress, scanMode, scanInput,
                   scanError, tasks, requests, fileFormat, encoding, call>>

\* handleFileSelect after parseFile rejected (reading or decoding threw).
FileReadFails ==
    /\ loadsInFlight > 0
    /\ loadsInFlight' = loadsInFlight - 1
    /\ now' = now + 1
    /\ \E h \in DOMAIN loadOptions : loadOptions' = WithoutLoad(loadOptions, h)
    /\ parseError' = ReadError
    /\ isLoading' = FALSE
    /\ UNCHANGED <<records, fileName, isImporting, importProgress, scanMode,
                   scanInput, scanError, tasks, requests, fileFormat, encoding, call>>

\* ------------------------------------------------------------ bulk import
\* The scan and import-all buttons are rendered when
\* records.length > 0 && pendingCount > 0 && !scanMode.
ImportButtonsShown ==
    /\ Len(records) > 0
    /\ PendingCount(records) > 0
    /\ ~scanMode

\* handleImportAll up to the first `await importRecord(record)`.
HandleImportAll ==
    /\ ImportButtonsShown
    /\ FreeSlots # {}
    /\ LET pendingRecords == PendingRecords(records)
           ids == Ids(pendingRecords)
           t == FreeSlot
       IN  /\ Len(pendingRecords) # 0
           /\ isImporting' = TRUE
           /\ importProgress' = [current |-> 0, total |-> Len(pendingRecords)]
           /\ records' = MarkImporting(records, ids[1])
           /\ requests' = requests \cup CallsBeforeAwait(t, ids)
           /\ tasks' = [tasks EXCEPT ![t] =
                  [kind |-> "bulk", snap |-> ids, i |-> 1, called |-> <<ids[1]>>,
                   stale |-> 0]]
    /\ UNCHANGED <<fileName, isLoading, parseError, scanMode, scanInput, scanError,
                   loadsInFlight, now>>
    /\ UNCHANGED <<fileFormat, encoding, loadOptions, call>>

\* The createItem call q of a bulk run settles with resp: the rest of
\* importRecord, then handleImportAll from setImportProgress to its next
\* await or to its end.
BulkCallSettles(q, resp) ==
    /\ q \in requests
    /\ tasks[q.task].kind = "bulk"
    /\ LET t == q.task
           task == tasks[t]
           n == Len(task.snap)
           settled == ApplyResult(records, q.rec, resp)
       IN  IF Propagates(resp)
           THEN /\ records' = records
                /\ requests' = requests \ {q}
                /\ tasks' = [tasks EXCEPT ![t] = IdleTask]
                /\ UNCHANGED <<isImporting, importProgress>>
           ELSE IF task.i < n
           THEN /\ importProgress' = [current |-> task.i, total |-> n]
                /\ records' = MarkImporting(settled, NextOfRun(task, settled))
                /\ requests' = (requests \ {q}) \cup {Request(t, NextOfRun(task, settled))}
                /\ tasks' = [tasks EXCEPT ![t].i = task.i + 1,
                                          ![t].called = Append(task.called, NextOfRun(task, settled))]
                /\ UNCHANGED isImporting
           ELSE /\ importProgress' = [current |-> task.i, total |-> n]
                /\ records' = settled
                /\ requests' = requests \ {q}
                /\ tasks' = [tasks EXCEPT ![t] = IdleTask]
                /\ isImporting' = FALSE
    /\ UNCHANGED <<fileName, isLoading, parseError, scanMode, scanInput, scanError,
                   loadsInFlight, now>>
    /\ UNCHANGED <<fileFormat, encoding, loadOptions, call>>

\* -------------------------------------------------------------- scan mode
\* The scan card is rendered when records.length > 0 && scanMode.
ScanCardShown == Len(records) > 0 /\ scanMode

HandleStartScanMode ==
    /\ ImportButtonsShown
    /\ scanMode' = TRUE
    /\ scanInput' = EmptyStr
    /\ scanError' = EmptyStr
    /\ UNCHANGED <<records, fileName, isLoading, parseError, isImporting,
                   importProgress, tasks, requests, loadsInFlight, now>>
    /\ UNCHANGED <<fileFormat, encoding, loadOptions, call>>

\* The X button of the scan card: onClick={() => setScanMode(false)}.
ExitScanMode ==
    /\ ScanCardShown
    /\ scanMode' = FALSE
    /\ UNCHANGED <<records, fileName, isLoading, parseError, isImporting,
                   importProgress, scanInput, scanError, tasks, requests,
                   loadsInFlight, now>>
    /\ UNCHANGED <<fileFormat, encoding, loadOptions, call>>

\* onChange={(e) => setScanInput(e.target.value)}
SetScanInput(s) ==
    /\ ScanCardShown
    /\ s # scanInput
    /\ scanInput' = s
    /\ UNCHANGED <<records, fileName, isLoading, parseError, isImporting,
                   importProgress, scanMode, scanError, tasks, requests,
                   loadsInFlight, now>>
    /\ UNCHANGED <<fileFormat, encoding, loadOptions, call>>

\* handleScanSubmit up to `await importRecord(matchingRecord)`, or to its
\* return when the input is blank or nothing matches.
HandleScanSubmit ==
    /\ ScanCardShown
    /\ LET isbn == Trim(scanInput)
           m == FindMatch(records, isbn)
           t == FreeSlot
       IN  IF Trim(scanInput) = EmptyStr
           THEN UNCHANGED <<records, scanInput, scanError, tasks, requests>>
           ELSE IF m = 0
           THEN /\ scanError' = NotFound(isbn)
                /\ scanInput' = EmptyStr
                /\ UNCHANGED <<records, tasks, requests>>
           ELSE /\ FreeSlots # {}
                /\ scanError' = EmptyStr
                /\ records' = MarkImporting(records, records[m].id)
                /\ requests' = requests \cup {Request(t, records[m].id)}
                /\ tasks' = [tasks EXCEPT ![t] =
                       [kind |-> "scan", snap |-> <<records[m].id>>, i |-> 1,
                        called |-> <<records[m].id>>,
                        stale |-> Len(PendingRecords(records))]]
                /\ UNCHANGED scanInput
    /\ UNCHANGED <<fileName, isLoading, parseError, isImporting, importProgress,
                   scanMode, loadsInFlight, now>>
    /\ UNCHANGED <<fileFormat, encoding, loadOptions, call>>

\* The createItem call q of a scan import settles with resp: the rest of
\* importRecord, then handleScanSubmit from setScanInput('') to its end.
\* `stale` is the pending count of the records array the handler captured.
ScanCallSettles(q, resp) ==
    /\ q \in requests
    /\ tasks[q.task].kind = "scan"
    /\ LET t == q.task
           task == tasks[t]
           remaining == task.stale - 1
       IN  /\ requests' = requests \ {q}
           /\ tasks' = [tasks EXCEPT ![t] = IdleTask]
           /\ IF Propagates(resp)
              THEN UNCHANGED <<records, scanInput, scanMode>>
              ELSE /\ records' = ApplyResult(records, q.rec, resp)
                   /\ scanInput' = EmptyStr
                   /\ scanMode' = IF remaining = 0 THEN FALSE ELSE scanMode
    /\ UNCHANGED <<fileName, isLoading, parseError, isImporting, importProgress,
                   scanError, loadsInFlight, now>>
    /\ UNCHANGED <<fileFormat, encoding, loadOptions, call>>

\* ------------------------------------------------------- remove and clear
RemoveShownUnlessImported(r) == r.status # "imported"

\* The remove button of a row is rendered when record.status === 'pending'.
RemoveShown(r) == r.status = "pending"

HandleRemoveRecord(k) ==
    /\ k \in DOMAIN records
    /\ RemoveShown(records[k])
    /\ records' = RemoveById(records, records[k].id)
    /\ UNCHANGED <<fileName, isLoading, parseError, isImporting, importProgress,
                   scanMode, scanInput, scanError, tasks, requests, loadsInFlight, now>>
    /\ UNCHANGED <<fileFormat, encoding, loadOptions, call>>

\* The clear button is part of the card rendered when records.length > 0.
HandleClear ==
    /\ Len(records) > 0
    /\ records' = <<>>
    /\ fileName' = ""
    /\ parseError' = EmptyStr
    /\ UNCHANGED <<isLoading, isImporting, importProgress, scanMode, scanInput,
                   scanError, tasks, requests, loadsInFlight, now>>
    /\ UNCHANGED <<fileFormat, encoding, loadOptions, call>>

\* ------------------------------------------------------------------- Next
Next ==
    \/ HandleFileSelect
    \/ \E parsed \in ParsedFiles : FileParsed(parsed)
    \/ FileReadFails
    \/ HandleImportAll
    \/ \E q \in requests, resp \in Responses : BulkCallSettles(q, resp)
    \/ HandleStartScanMode
    \/ ExitScanMode
    \/ \E s \in ScanInputs : SetScanInput(s)
    \/ HandleScanSubmit
    \/ \E q \in requests, resp \in Responses : ScanCallSettles(q, resp)
    \/ \E k \in 1..MaxRecs : HandleRemoveRecord(k)
    \/ HandleClear

Spec == Init /\ [][Next]_vars


\* ------------------------------------------- the import-all button, loading
\* <Button isLoading={isImporting}> : Button.tsx is not part of the sources
\* at hand.  Spec lets the button be pressed while a run is active;
\* SpecButtonDisabled is the same system with a button that ignores clicks
\* while isLoading.  What holds under Spec holds for both; what fails under
\* SpecButtonDisabled fails for both.
ImportAllButtonEnabled == ~isImporting

HandleImportAllEnabled == ImportAllButtonEnabled /\ HandleImportAll

NextButtonDisabled ==
    \/ HandleFileSelect
    \/ \E parsed \in ParsedFiles : FileParsed(parsed)
    \/ FileReadFails
    \/ HandleImportAllEnabled
    \/ \E q \in requests, resp \in Responses : BulkCallSettles(q, resp)
    \/ HandleStartScanMode
    \/ ExitScanMode
    \/ \E s \in ScanInputs : SetScanInput(s)
    \/ HandleScanSubmit
    \/ \E q \in requests, resp \in Responses : ScanCallSettles(q, resp)
    \/ \E k \in 1..MaxRecs : HandleRemoveRecord(k)
    \/ HandleClear

SpecButtonDisabled == Init /\ [][NextButtonDisabled]_vars

\* --------------------------------------------- a bulk run left undisturbed
\* The operator loads a file, may remove records or clear, and starts a
\* bulk import; while a run is active nothing happens but its createItem
\* calls settling, and every call settles.
Quiet == requests = {} /\ loadsInFlight = 0

NextBulk ==
    \/ Quiet /\ HandleFileSelect
    \/ \E parsed \in ParsedFiles : FileParsed(parsed)
    \/ FileReadFails
    \/ Quiet /\ HandleImportAll
    \/ \E q \in requests, resp \in Responses : BulkCallSettles(q, resp)
    \/ \E k \in 1..MaxRecs : Quiet /\ HandleRemoveRecord(k)
    \/ Quiet /\ HandleClear

SpecBulk ==
    /\ Init
    /\ [][NextBulk]_vars
    /\ WF_vars(\E q \in requests, resp \in Responses : BulkCallSettles(q, resp))

\* ------------------------------------------- every createItem call settles
\* The ids buildRecordFromFields can give within the bounds.
RecordIds == (1..MaxRecs) \X (1..MaxLoads)

\* api.createItem is an HTTP request: it resolves or rejects.
CallSettles(q) ==
    \E resp \in Responses : BulkCallSettles(q, resp) \/ ScanCallSettles(q, resp)

\* No file has been selected yet.
NoFileYet == loadsInFlight + now = 0

\* The session of one selected file, with every operation of the page.
NextOneFile ==
    \/ NoFileYet /\ HandleFileSelect
    \/ \E parsed \in ParsedFiles : FileParsed(parsed)
    \/ FileReadFails
    \/ HandleImportAll
    \/ \E q \in requests, resp \in Responses : BulkCallSettles(q, resp)
    \/ HandleStartScanMode
    \/ ExitScanMode
    \/ \E s \in ScanInputs : SetScanInput(s)
    \/ HandleScanSubmit
    \/ \E q \in requests, resp \in Responses : ScanCallSettles(q, resp)
    \/ \E k \in 1..MaxRecs : HandleRemoveRecord(k)
    \/ HandleClear

\* That session with every createItem call eventually resolving or rejecting.
SpecCallsSettle ==
    /\ Init
    /\ [][NextOneFile]_vars
    /\ \A t \in 1..MaxTasks, id \in RecordIds : WF_vars(CallSettles(Request(t, id)))

\* ------------------------------------------------- selecting and loading files
\* The operator sets the import options, selects files, and clears the
\* session; the files are read and decoded.
NextLoad ==
    \/ \E format \in {FileFormats[k] : k \in DOMAIN FileFormats} : SetFileFormat(format)
    \/ \E enc \in Encodings : SetEncoding(enc)
    \/ HandleFileSelect
    \/ \E parsed \in ParsedFiles : FileParsed(parsed)
    \/ FileReadFails
    \/ \E k \in 1..MaxRecs : HandleRemoveRecord(k)
    \/ HandleClear

SpecLoad == Init /\ [][NextLoad]_vars

\* ------------------------------------------------------------- getSubfield
\* String.prototype.split with a one-character separator.
RECURSIVE Split(_, _)
Split(s, d) ==
    LET at == {p \in DOMAIN s : s[p] = d}
    IN  IF at = {} THEN <<s>>
        ELSE LET p == CHOOSE x \in at : \A y \in at : x <= y
             IN  <<SubSeq(s, 1, p - 1)>> \o Split(SubSeq(s, p + 1, Len(s)), d)

\* getSubfield(fieldData, code): the first part of fieldData.split('\x1F')
\* that is not empty and starts with code, without that character, trimmed.
GetSubfield(fieldData, code) ==
    LET parts == Split(fieldData, US)
        hits == {n \in DOMAIN parts : Len(parts[n]) > 0 /\ parts[n][1] = code}
    IN  IF hits = {} THEN Undefined
        ELSE Trim(Tail(parts[CHOOSE n \in hits : \A m \in hits : n <= m]))

sessionVars == <<records, fileName, isLoading, parseError, isImporting, importProgress,
                 scanMode, scanInput, scanError, tasks, requests, loadsInFlight, now,
                 fileFormat, encoding, loadOptions>>

\* getSubfield is about to be applied to a payload and a code.
InitGetSubfield ==
    /\ InitSession
    /\ call \in [fn : {"getSubfield"}, fieldData : Payloads, code : SubfieldCodes,
                 done : {FALSE}, result : {Undefined}]

ApplyGetSubfield ==
    /\ call.fn = "getSubfield"
    /\ ~call.done
    /\ call' = [call EXCEPT !.done = TRUE,
                            !.result = GetSubfield(call.fieldData, call.code)]
    /\ UNCHANGED sessionVars

SpecGetSubfield == InitGetSubfield /\ [][ApplyGetSubfield]_vars

\* ---------------------------------------------------- buildRecordFromFields
\* The tags buildRecordFromFields reads the first occurrence of.
Tags == {"200", "245", "010", "020", "700", "100", "210", "260", "264", "330", "520"}

\* Raw field payloads of the stores given to the normalizer: the empty
\* payload, two payloads with indicators and every subfield the normalizer
\* reads (with different values), one without $a, one whose $a is empty, one
\* whose first indicator is the letter a, and one whose values end in the
\* punctuation the MARC21 branches strip.
FieldPayloads ==
    { <<>>,
      <<" ", " ", US, "a", "X", US, "b", "W", US, "c", "V", US, "d", "1", US, "e", "U">>,
      <<" ", " ", US, "a", "Y", US, "b", "Z", US, "c", "Q", US, "d", "2", US, "e", "R">>,
      <<" ", " ", US, "b", "W">>,
      <<" ", " ", US, "a">>,
      <<"a", "T", US, "b", "W">>,
      <<" ", " ", US, "a", "X", " ", "/", US, "b", "W", ":", US, "c", "1", ".">> }

\* The field stores in which at most n of the tags are present, each with
\* one occurrence (only occurrence [0] of these tags is read).
FieldStores(n) ==
    UNION { { [t \in Tags |-> IF t \in S THEN <<g[t]>> ELSE <<>>] : g \in [S -> FieldPayloads] }
            : S \in {T \in SUBSET Tags : Cardinality(T) <= n} }

\* rawFields.get(tag)?.[0]
FirstOf(rawFields, tag) ==
    IF rawFields[tag] = <<>> THEN Undefined ELSE rawFields[tag][1]

\* The truthiness of an optional string: undefined and '' are falsy.
Truthy(s) == s # Undefined /\ s # EmptyStr

\* s?.replace(/\s*[<set>]\s*$/, ''): blanks, one character of the set,
\* blanks, at the end of the string.
StripPunctuation(s, set) ==
    LET t == TrimEnd(s)
    IN  IF s = Undefined THEN Undefined
        ELSE IF t # <<>> /\ t[Len(t)] \in set THEN TrimEnd(SubSeq(t, 1, Len(t) - 1))
        ELSE s

\* s?.replace(/[<set>]\s*$/, ''): one character of the set, blanks, at the end.
StripLast(s, set) ==
    LET t == TrimEnd(s)
    IN  IF s = Undefined THEN Undefined
        ELSE IF t # <<>> /\ t[Len(t)] \in set THEN SubSeq(t, 1, Len(t) - 1)
        ELSE s

\* s?.split(' ')[0]
FirstWord(s) == IF s = Undefined THEN Undefined ELSE Split(s, " ")[1]

IsDigit(c) == c \in {"0", "1", "2", "3", "4", "5", "6", "7", "8", "9"}

\* s?.replace(/[^\d]/g, '').substring(0, 4)
FourDigits(s) ==
    LET digits == SelectSeq(s, IsDigit)
    IN  IF s = Undefined THEN Undefined
        ELSE SubSeq(digits, 1, IF Len(digits) < 4 THEN Len(digits) ELSE 4)

\* parseAuthor
ParseAuthor(fieldData) ==
    LET func == IF Truthy(GetSubfield(fieldData, "4")) THEN GetSubfield(fieldData, "4")
                ELSE GetSubfield(fieldData, "e")
    IN  [lastname |-> StripLast(GetSubfield(fieldData, "a"), {","}),
         firstname |-> GetSubfield(fieldData, "b"),
         function |-> func]

\* buildRecordFromFields: the attributes read from the tags with a UNIMARC
\* and a MARC21 variant.  An attribute the function does not set is Undefined.
BuildRecordFromFields(rawFields) ==
    LET field200 == FirstOf(rawFields, "200")
        field245 == FirstOf(rawFields, "245")
        field010 == FirstOf(rawFields, "010")
        field020 == FirstOf(rawFields, "020")
        field700 == FirstOf(rawFields, "700")
        field100 == FirstOf(rawFields, "100")
        field210 == FirstOf(rawFields, "210")
        field260 == FirstOf(rawFields, "260")
        field264 == FirstOf(rawFields, "264")
        field330 == FirstOf(rawFields, "330")
        field520 == FirstOf(rawFields, "520")
        marc21Publication(f) ==
            [publication_date |-> FourDigits(GetSubfield(f, "c")),
             edition_name |-> StripLast(GetSubfield(f, "b"), {",", ".", ":"}),
             edition_place |-> StripPunctuation(GetSubfield(f, "a"), {":"})]
        title ==
            IF Truthy(field200)
            THEN [title1 |-> GetSubfield(field200, "a"), title2 |-> GetSubfield(field200, "e")]
            ELSE IF Truthy(field245)
            THEN [title1 |-> StripPunctuation(GetSubfield(field245, "a"), {"/", ":", ";"}),
                  title2 |-> StripPunctuation(GetSubfield(field245, "b"), {"/", ":", ";"})]
            ELSE [title1 |-> Undefined, title2 |-> Undefined]
        identification ==
            IF Truthy(field010) THEN GetSubfield(field010, "a")
            ELSE IF Truthy(field020) THEN FirstWord(GetSubfield(field020, "a"))
            ELSE Undefined
        authors1 ==
            IF Truthy(field700) THEN <<ParseAuthor(field700)>>
            ELSE IF Truthy(field100) THEN <<ParseAuthor(field100)>>
            ELSE Undefined
        publication ==
            IF Truthy(field210)
            THEN [publication_date |-> FourDigits(GetSubfield(field210, "d")),
                  edition_name |-> GetSubfield(field210, "c"),
                  edition_place |-> GetSubfield(field210, "a")]
            ELSE IF Truthy(field260) THEN marc21Publication(field260)
            ELSE IF Truthy(field264) THEN marc21Publication(field264)
            ELSE [publication_date |-> Undefined, edition_name |-> Undefined,
                  edition_place |-> Undefined]
        abstract ==
            IF Truthy(field330) THEN GetSubfield(field330, "a")
            ELSE IF Truthy(field520) THEN GetSubfield(field520, "a")
            ELSE Undefined
    IN  [title1 |-> title.title1, title2 |-> title.title2,
         identification |-> identification, authors1 |-> authors1,
         publication_date |-> publication.publication_date,
         edition_name |-> publication.edition_name,
         edition_place |-> publication.edition_place,
         abstract_ |-> abstract]

\* if (record.title1) records.push(record), in parseISO2709 and parseMARCXML
\* alike: the records one field store adds to a decoder's output.
Decoded(rawFields) ==
    LET record == BuildRecordFromFields(rawFields)
    IN  IF Truthy(record.title1) THEN <<record>> ELSE <<>>

\* A decoder is about to normalize and filter the field store of a record.
InitNormalize ==
    /\ InitSession
    /\ call \in [fn : {"buildRecordFromFields"}, rawFields : FieldStores(MaxFields),
                 format : {FileFormats[k] : k \in DOMAIN FileFormats},
                 done : {FALSE}, record : {Undefined}, records : {<<>>}]

ApplyNormalize ==
    /\ call.fn = "buildRecordFromFields"
    /\ ~call.done
    /\ call' = [call EXCEPT !.done = TRUE,
                            !.record = BuildRecordFromFields(call.rawFields),
                            !.records = Decoded(call.rawFields)]
    /\ UNCHANGED sessionVars

SpecNormalize == InitNormalize /\ [][ApplyNormalize]_vars

\* ------------------------------------------------------------ parseISO2709
\* RECORD_TERMINATOR '\x1D' and FIELD_TERMINATOR '\x1E'.
RT == "RT"

FT == "FT"

\* A result of parseInt is <<v>> for the number v, and NaN when the string
\* starts with no digit.
NaN == <<>>

DigitValue(c) == CHOOSE v \in 0..9 : Digits(v) = <<c>>

RECURSIVE LeadingDigits(_)
LeadingDigits(s) ==
    IF s # <<>> /\ IsDigit(Head(s)) THEN <<Head(s)>> \o LeadingDigits(Tail(s)) ELSE <<>>

RECURSIVE DecimalValue(_)
DecimalValue(ds) ==
    IF ds = <<>> THEN 0
    ELSE 10 * DecimalValue(SubSeq(ds, 1, Len(ds) - 1)) + DigitValue(ds[Len(ds)])

\* parseInt(s): leading blanks, an optional sign, then the longest run of
\* decimal digits; NaN when that run is empty.
ParseInt(s) ==
    LET t == TrimStart(s)
        signed == t # <<>> /\ t[1] \in {"+", "-"}
        ds == LeadingDigits(IF signed THEN Tail(t) ELSE t)
    IN  IF ds = <<>> THEN NaN
        ELSE IF signed /\ t[1] = "-" THEN <<0 - DecimalValue(ds)>>
        ELSE <<DecimalValue(ds)>>

\* A result of parseInt as an index argument of substring: NaN counts as 0.
IndexArg(p) == IF p = NaN THEN 0 ELSE p[1]

\* An index argument of substring: negatives count as 0, values past the
\* end as the length.
ClampIndex(x, n) == IF x < 0 THEN 0 ELSE IF x > n THEN n ELSE x

\* String.prototype.substring(a, b): the arguments are clamped, and swapped
\* when a > b.
Substring(s, a, b) ==
    LET x == ClampIndex(a, Len(s))
        y == ClampIndex(b, Len(s))
    IN  IF x <= y THEN SubSeq(s, x + 1, y) ELSE SubSeq(s, y + 1, x)

\* String.prototype.substring(a)
SubstringFrom(s, a) == Substring(s, a, Len(s))

\* String.prototype.indexOf(c), 0-based, -1 when c does not occur.
IndexOf(s, c) ==
    LET at == {p \in DOMAIN s : s[p] = c}
    IN  IF at = {} THEN 0 - 1 ELSE (CHOOSE p \in at : \A q \in at : p <= q) - 1

\* content.split(RECORD_TERMINATOR).filter(r => r.length > 0)
RawRecordsOf(content) == SelectSeq(Split(content, RT), LAMBDA r : Len(r) > 0)

\* The directory loop of parseISO2709 from offset j: the (tag, payload)
\* pairs in directory order; an entry whose length or start is not a number
\* is skipped.
RECURSIVE DirectoryEntries(_, _, _)
DirectoryEntries(directory, fieldsData, j) ==
    IF j >= Len(directory) THEN <<>>
    ELSE LET tag == Substring(directory, j, j + 3)
             fieldLength == ParseInt(Substring(directory, j + 3, j + 7))
             startPos == ParseInt(Substring(directory, j + 7, j + 12))
             rest == DirectoryEntries(directory, fieldsData, j + 12)
         IN  IF fieldLength # NaN /\ startPos # NaN
             THEN <<[tag |-> tag,
                     data |-> Substring(fieldsData, startPos[1],
                                        startPos[1] + fieldLength[1] - 1)]>>
                  \o rest
             ELSE rest

\* The characters of the tags the normalizer reads.
TagChars(tag) ==
    CASE tag = "200" -> <<"2", "0", "0">> [] tag = "245" -> <<"2", "4", "5">>
      [] tag = "010" -> <<"0", "1", "0">> [] tag = "020" -> <<"0", "2", "0">>
      [] tag = "700" -> <<"7", "0", "0">> [] tag = "100" -> <<"1", "0", "0">>
      [] tag = "210" -> <<"2", "1", "0">> [] tag = "260" -> <<"2", "6", "0">>
      [] tag = "264" -> <<"2", "6", "4">> [] tag = "330" -> <<"3", "3", "0">>
      [] tag = "520" -> <<"5", "2", "0">>

\* rawFields as the normalizer reads it: for each tag, the payloads stored
\* under it, in directory order.
StoreOf(entries) ==
    [t \in Tags |->
        LET mine == SelectSeq(entries, LAMBDA e : e.tag = TagChars(t))
        IN  [k \in DOMAIN mine |-> mine[k].data]]

MediaTypeOfStatus(leader) ==
    IF leader # EmptyStr /\ Len(leader) > 6
    THEN LET leaderType == leader[6]
         IN  CASE leaderType \in {"a", "t"} -> <<"b">>
               [] leaderType = "g" -> <<"v">>
               [] leaderType \in {"j", "i"} -> <<"a">>
               [] leaderType = "s" -> <<"p">>
               [] leaderType = "m" -> <<"c">>
               [] leaderType \in {"k", "r"} -> <<"i">>
               [] OTHER -> <<"u">>
    ELSE <<"u">>

\* The media type buildRecordFromFields derives from leader[6].
MediaType(leader) ==
    IF leader # EmptyStr /\ Len(leader) > 6
    THEN LET leaderType == leader[7]
         IN  CASE leaderType \in {"a", "t"} -> <<"b">>
               [] leaderType = "g" -> <<"v">>
               [] leaderType \in {"j", "i"} -> <<"a">>
               [] leaderType = "s" -> <<"p">>
               [] leaderType = "m" -> <<"c">>
               [] leaderType \in {"k", "r"} -> <<"i">>
               [] OTHER -> <<"u">>
    ELSE <<"u">>

\* The body of the for loop of parseISO2709 for the raw record of index i:
\* the records it pushes (none or one).
ParseRawRecord(rawRecord, i) ==
    IF Len(rawRecord) < 24 THEN <<>>
    ELSE LET leader == Substring(rawRecord, 0, 24)
             baseAddress == ParseInt(Substring(leader, 12, 17))
             directoryEnd == IndexOf(rawRecord, FT)
             directory == Substring(rawRecord, 24, directoryEnd)
             fieldsData == SubstringFrom(rawRecord, IndexArg(baseAddress))
             entries == DirectoryEntries(directory, fieldsData, 0)
             record == BuildRecordFromFields(StoreOf(entries))
         IN  IF Truthy(record.title1)
             THEN <<[index |-> i, media_type |-> MediaType(leader),
                     raw_fields |-> entries, attributes |-> record]>>
             ELSE <<>>

PushedFirst(out, pushed) == pushed \o out

\* records.push(record)
Pushed(out, pushed) == out \o pushed

\* The for loop of parseISO2709 from raw record i on; `out` is the local
\* array `records`.
RECURSIVE ParseRawRecords(_, _, _)
ParseRawRecords(rawRecords, i, out) ==
    IF i > Len(rawRecords) THEN out
    ELSE ParseRawRecords(rawRecords, i + 1,
                         Pushed(out, ParseRawRecord(rawRecords[i], i - 1)))

\* parseISO2709(content)
ParseISO2709(content) == ParseRawRecords(RawRecordsOf(content), 1, <<>>)

\* ------------------------------------------------- ISO 2709 input buffers
RECURSIVE Zeros(_)
Zeros(n) == IF n <= 0 THEN <<>> ELSE <<"0">> \o Zeros(n - 1)

\* The decimal digits of n, zero-padded on the left to w characters.
Pad(n, w) == Zeros(w - Len(Digits(n))) \o Digits(n)

RECURSIVE Concat(_)
Concat(ss) == IF ss = <<>> THEN <<>> ELSE Head(ss) \o Concat(Tail(ss))

\* A field of a sample record: its tag, its payload, and by how much the
\* directory entry overstates its length.
Field(tag, data, excess) == [tag |-> tag, data |-> data, excess |-> excess]

RECURSIVE StartOf(_, _)
StartOf(fields, k) == IF k = 1 THEN 0 ELSE StartOf(fields, k - 1) + Len(fields[k - 1].data) + 1

\* A framed record without its record terminator: a 24-character leader
\* with the record type at offset 6 and the base address at offsets 12-16,
\* the directory (`junk`, then one 12-character entry per field), a field
\* terminator, and the payloads, each followed by a field terminator.
RawRecord(type, junk, fields) ==
    LET base == 24 + Len(junk) + 12 * Len(fields) + 1
        directory == junk \o Concat([k \in DOMAIN fields |->
                        fields[k].tag \o Pad(Len(fields[k].data) + 1 + fields[k].excess, 4)
                                      \o Pad(StartOf(fields, k), 5)])
        area == Concat([k \in DOMAIN fields |-> fields[k].data \o <<FT>>])
        total == base + Len(area) + 1
    IN  Pad(total, 5) \o <<"n", type, "m", " ", " ", "2", "2">> \o Pad(base, 5)
        \o <<" ", " ", " ", "4", "5", "0", " ">> \o directory \o <<FT>> \o area

\* The raw records the buffers are made of: two well-formed ones (UNIMARC and
\* MARC21 tags), one without title field, one shorter than a leader, an empty
\* one (two record terminators in a row), one whose directory overstates the
\* length of the title field, and one whose directory starts with an entry
\* that holds no numbers.
RawSamples ==
    << RawRecord("a", <<>>, <<Field(TagChars("200"), <<" ", " ", US, "a", "X">>, 0),
                        Field(TagChars("010"), <<" ", " ", US, "a", "a">>, 0)>>),
       RawRecord("g", <<>>, <<Field(TagChars("245"), <<" ", " ", US, "a", "Y", " ", "/">>, 0),
                        Field(TagChars("260"), <<" ", " ", US, "c", "1", "9", "9", "9", ".">>, 0)>>),
       RawRecord("a", <<>>, <<Field(TagChars("010"), <<" ", " ", US, "a", "b">>, 0)>>),
       <<"0", "0", "1", "2">>,
       <<>>,
       RawRecord("a", <<>>, <<Field(TagChars("200"), <<" ", " ", US, "a", "Z">>, 3),
                        Field(TagChars("010"), <<" ", " ", US, "a", "b">>, 0)>>),
       RawRecord("s", <<"9", "9", "9", "l", "e", "n", "g", "0", "0", "0", "0", "0">>,
                 <<Field(TagChars("200"), <<" ", " ", US, "a", "W">>, 0)>>) >>

\* content for a sequence of sample numbers: each raw record followed by a
\* record terminator.
BufferOf(raws) == Concat([k \in DOMAIN raws |-> RawSamples[raws[k]] \o <<RT>>])

\* parseISO2709 is about to decode a buffer of at most MaxBufRecs raw records.
InitISO2709 ==
    /\ InitSession
    /\ call \in [fn : {"parseISO2709"}, raws : SeqsUpTo(DOMAIN RawSamples, MaxBufRecs),
                 done : {FALSE}, records : {<<>>}]

ApplyISO2709 ==
    /\ call.fn = "parseISO2709"
    /\ ~call.done
    /\ call' = [call EXCEPT !.done = TRUE,
                            !.records = ParseISO2709(BufferOf(call.raws))]
    /\ UNCHANGED sessionVars

SpecISO2709 == InitISO2709 /\ [][ApplyISO2709]_vars

\* ------------------------------------------------- media type of a leader
\* Characters at leader offset 6: every record type the switch names, and two
\* it does not.
LeaderTypes == {"a", "t", "g", "j", "i", "s", "m", "k", "r", "x", " "}

\* Characters at the offsets next to it.
LeaderNeighbours == {"a", "g", "x"}

\* The leaders of at most n characters: zeros except at offsets 5, 6 and 7.
Leaders(n) ==
    { [p \in 1..len |-> IF p = 6 THEN c5 ELSE IF p = 7 THEN c6 ELSE IF p = 8 THEN c7 ELSE "0"]
        : <<c5, c6, c7, len>> \in LeaderNeighbours \X LeaderTypes \X LeaderNeighbours \X (0..n) }

\* buildRecordFromFields is about to derive the media type from a leader.
InitMediaType ==
    /\ InitSession
    /\ call \in [fn : {"media_type"}, leader : Leaders(MaxLeaderLen),
                 done : {FALSE}, media_type : {Undefined}]

ApplyMediaType ==
    /\ call.fn = "media_type"
    /\ ~call.done
    /\ call' = [call EXCEPT !.done = TRUE, !.media_type = MediaType(call.leader)]
    /\ UNCHANGED sessionVars

SpecMediaType == InitMediaType /\ [][ApplyMediaType]_vars

\* ================================================================== claims
IsTerminal(st) == st \in {"imported", "error"}

StatusStep(a, b) ==
    \/ a = b
    \/ a = "pending" /\ b = "importing"
    \/ a = "importing" /\ IsTerminal(b)

\* C1: a record's status changes only along pending -> importing ->
\* imported | error, and an imported or error record keeps its status for
\* as long as it is in the session, in every interleaving of the handlers.
C1_StatusLifecycle ==
    [][\A k \in DOMAIN records : \A j \in DOMAIN records' :
          records[k].id = records'[j].id
              => StatusStep(records[k].status, records'[j].status)]_vars

\* C2: a bulk import of a session of N pending records, left undisturbed,
\* ends, and ends with exactly those N records each imported or error,
\* createItem called for them in sequence order, progress N/N and the
\* importing flag reset.
C2_BulkRunEnd ==
    /\ [][\A t \in 1..MaxTasks :
            (tasks[t].kind = "bulk" /\ tasks'[t].kind = "idle") =>
                /\ Ids(records') = Ids(records)
                /\ \A k \in DOMAIN records' : IsTerminal(records'[k].status)
                /\ tasks[t].called = Ids(records)
                /\ importProgress' = [current |-> Len(records), total |-> Len(records)]
                /\ isImporting' = FALSE]_vars
    /\ (isImporting ~> ~isImporting)

C2_Witness ==
    /\ ~isImporting
    /\ requests = {}
    /\ importProgress = [current |-> 2, total |-> 2]
    /\ Len(records) = 2
    /\ records[1].status = "error"
    /\ records[2].status = "imported"


RequestsOf(t, reqs) == {q \in reqs : q.task = t}

\* A bulk run has at most one createItem call outstanding, and it is the
\* call for the record the loop stands at.
OneCallPerBulkRun ==
    \A t \in 1..MaxTasks :
        tasks[t].kind = "bulk" =>
            /\ Cardinality(RequestsOf(t, requests)) <= 1
            /\ Len(tasks[t].called) = tasks[t].i
            /\ \A q \in RequestsOf(t, requests) : q.rec = tasks[t].snap[tasks[t].i]

\* When a bulk run issues its next call, the call for the record before
\* has settled and that record, if still in the session, is imported or error.
NextCallAfterCompletion ==
    \A t \in 1..MaxTasks :
        (/\ tasks[t].kind = "bulk"
         /\ tasks'[t].kind = "bulk"
         /\ Len(tasks'[t].called) > Len(tasks[t].called)) =>
            LET before == tasks[t].snap[tasks[t].i]
                next == tasks'[t].called[Len(tasks'[t].called)]
            IN  /\ next = tasks[t].snap[tasks[t].i + 1]
                /\ Request(t, before) \in requests
                /\ RequestsOf(t, requests') = {Request(t, next)}
                /\ \A k \in DOMAIN records' :
                       records'[k].id = before => IsTerminal(records'[k].status)

\* C3: within one bulk run the createItem request for the (k+1)-th
\* snapshotted record is issued only after the import of the k-th has
\* completed: its call has settled and its status update is applied.
C3_BulkSerialized == []OneCallPerBulkRun /\ [][NextCallAfterCompletion]_vars

C3_Witness ==
    \E t \in 1..MaxTasks :
        /\ tasks[t].kind = "bulk"
        /\ tasks[t].i = 2
        /\ Request(t, tasks[t].snap[2]) \in requests
        /\ \E k \in DOMAIN records :
               records[k].id = tasks[t].snap[1] /\ IsTerminal(records[k].status)

\* The state of the record a settled call was made for.
ResultApplied(q, resp) ==
    \A k \in DOMAIN records :
        records[k].id = q.rec =>
            /\ k \in DOMAIN records'
            /\ records'[k].id = q.rec
            /\ IF resp.ok
               THEN records'[k].status = "imported" /\ records'[k].importedId = resp.id
               ELSE records'[k].status = "error" /\ records'[k].error = GenericError

\* The caller of importRecord carries on after the call settled.
CallerCarriesOn(q) ==
    IF tasks[q.task].kind = "bulk"
    THEN importProgress'.current = tasks[q.task].i
    ELSE scanInput' = EmptyStr

\* C4: importRecord sets the record to importing when it issues the call;
\* when createItem resolves the record becomes imported with the returned
\* identifier as importedId; when it rejects the record becomes error with
\* the generic message, and the caller carries on as after a success.
C4_ImportRecordOutcome ==
    [][/\ \A q \in requests' \ requests :
              \A k \in DOMAIN records' :
                  records'[k].id = q.rec => records'[k].status = "importing"
       /\ \A q \in requests : \A resp \in Responses :
              (BulkCallSettles(q, resp) \/ ScanCallSettles(q, resp)) =>
                  ResultApplied(q, resp) /\ CallerCarriesOn(q)]_vars

C4_Witness ==
    /\ Len(records) = 2
    /\ records[1].status = "imported"
    /\ records[1].importedId = 8
    /\ records[2].status = "error"
    /\ records[2].error = GenericError

\* C5: when createItem rejects for the k-th record of a bulk run, that
\* record is marked error and the run goes on with the next record; a run
\* only ends when createItem has been called for every snapshotted record.
C5_FailureDoesNotAbort ==
    [][/\ \A q \in requests :
              (/\ BulkCallSettles(q, [ok |-> FALSE, id |-> NoItemId])
               /\ tasks[q.task].i < Len(tasks[q.task].snap)) =>
                  /\ ResultApplied(q, [ok |-> FALSE, id |-> NoItemId])
                  /\ tasks'[q.task].kind = "bulk"
                  /\ Request(q.task, tasks[q.task].snap[tasks[q.task].i + 1]) \in requests'
       /\ \A t \in 1..MaxTasks :
              (tasks[t].kind = "bulk" /\ tasks'[t].kind = "idle") =>
                  tasks[t].called = tasks[t].snap]_vars

C5_Witness ==
    \E t \in 1..MaxTasks :
        /\ tasks[t].kind = "bulk"
        /\ tasks[t].i = 2
        /\ Request(t, tasks[t].snap[2]) \in requests
        /\ \E k \in DOMAIN records :
               records[k].id = tasks[t].snap[1] /\ records[k].status = "error"


Blanks(n) == [k \in 1..n |-> " "]

\* s without the blanks at its start and at its end, said without trim().
WithoutOuterBlanks(s) ==
    CHOOSE t \in {SubSeq(s, a, b) : a \in 1..(Len(s) + 1), b \in 0..Len(s)} :
        /\ \E i \in 0..Len(s) : \E j \in 0..Len(s) : s = Blanks(i) \o t \o Blanks(j)
        /\ t = <<>> \/ (t[1] # " " /\ t[Len(t)] # " ")

PendingWith(k, isbn) ==
    /\ k \in DOMAIN records
    /\ records[k].status = "pending"
    /\ records[k].identification = isbn

\* This step starts the import of record k, the first pending record whose
\* identification is isbn, and touches no other record.
ScanSelects(k, isbn) ==
    /\ PendingWith(k, isbn)
    /\ \A j \in 1..(k - 1) : ~PendingWith(j, isbn)
    /\ {q.rec : q \in requests' \ requests} = {records[k].id}
    /\ Cardinality(requests' \ requests) = 1
    /\ DOMAIN records' = DOMAIN records
    /\ records'[k] = [records[k] EXCEPT !.status = "importing"]
    /\ \A j \in DOMAIN records : j # k => records'[j] = records[j]

\* The settling of a scan import changes no record but the one it imported.
ScanTouchesOnlyItsRecord ==
    \A q \in requests : \A resp \in Responses :
        ScanCallSettles(q, resp) =>
            /\ DOMAIN records' = DOMAIN records
            /\ \A j \in DOMAIN records : records[j].id # q.rec => records'[j] = records[j]

NotFoundOutcome(isbn) ==
    /\ records' = records
    /\ requests' = requests
    /\ tasks' = tasks
    /\ scanError' = <<"importMarc.isbnNotFound">> \o isbn
    /\ scanInput' = EmptyStr
    /\ scanMode /\ scanMode'

\* C7, as claimed: submitting a string that is the identification of no
\* pending record leaves the records unchanged, issues no createItem call,
\* sets the not-found error, clears the input and leaves scan mode active.
C7_NoExactMatch ==
    [][(HandleScanSubmit /\ \A k \in DOMAIN records : ~PendingWith(k, scanInput))
          => NotFoundOutcome(scanInput)]_vars

\* C7, amended: submitting a non-blank string which, with its leading and
\* trailing whitespace removed, is the identification of no pending record
\* leaves the records unchanged, issues no createItem call, sets the
\* not-found error naming the trimmed string, clears the input and leaves
\* scan mode active.
C7_NoTrimmedMatch ==
    [][(/\ HandleScanSubmit
        /\ WithoutOuterBlanks(scanInput) # <<>>
        /\ \A k \in DOMAIN records : ~PendingWith(k, WithoutOuterBlanks(scanInput)))
          => NotFoundOutcome(WithoutOuterBlanks(scanInput))]_vars

C7_Witness ==
    /\ scanMode
    /\ scanError = <<"importMarc.isbnNotFound", "a">>
    /\ scanInput = EmptyStr
    /\ requests = {}
    /\ Len(records) = 2
    /\ records[1].status = "imported"
    /\ records[1].identification = <<"a">>
    /\ records[2].status = "pending"

\* C8: when a scan import has completed successfully and no pending record
\* remains, scan mode is off; and a scan import does not switch scan mode
\* off while pending records remain; also when records are removed or
\* other imports complete while the scan import is in flight.
C8_ScanModeAutoExit ==
    [][\A q \in requests : \A resp \in Responses :
          ScanCallSettles(q, resp) =>
              /\ (resp.ok /\ PendingCount(records') = 0) => ~scanMode'
              /\ (scanMode /\ ~scanMode') => PendingCount(records') = 0]_vars

\* C9: remove is offered for pending records only, so it never takes an
\* importing, imported or error record out of the session; it deletes
\* exactly the record it is invoked on and leaves the other records, their
\* order and their statuses as they are.
C9_RemoveOnlyPending ==
    [][\A k \in DOMAIN records :
          HandleRemoveRecord(k) =>
              /\ records[k].status = "pending"
              /\ Len(records') = Len(records) - 1
              /\ \A j \in 1..(k - 1) : records'[j] = records[j]
              /\ \A j \in k..(Len(records) - 1) : records'[j] = records[j + 1]]_vars

C9_Witness ==
    /\ Len(records) = 1
    /\ records[1].id[1] = 2
    /\ records[1].status = "imported"

\* C10: clear empties the record sequence whatever the number of records
\* and their statuses, and the sequence stays empty, also when imports in
\* flight settle, until a file load completes.
C10_ClearStaysEmpty ==
    [][/\ HandleClear => records' = <<>>
       /\ (records = <<>> /\ now' = now) => records' = <<>>]_vars

C10_Witness ==
    /\ records = <<>>
    /\ now > 0
    /\ requests # {}
    /\ \E t \in 1..MaxTasks : tasks[t].kind = "bulk" /\ tasks[t].i = 2


\* C11: a bulk run works on a snapshot.  The run's record list is the ids of
\* the records that were pending when it started, it never changes while the
\* run is active, every createItem call the run issues is for a record of
\* that list (so a record that became pending later is never imported by
\* the run), and every progress update of the run carries the length of
\* that list as total.
RunStarts(t) == tasks[t].kind # "bulk" /\ tasks'[t].kind = "bulk"

RunGoesOn(t) == tasks[t].kind = "bulk" /\ tasks'[t].kind = "bulk"

PendingIdsOf(rs) ==
    LET at == {k \in DOMAIN rs : rs[k].status = "pending"}
        nth(n) == CHOOSE k \in at : Cardinality({j \in at : j < k}) = n - 1
    IN  [n \in 1..Cardinality(at) |-> rs[nth(n)].id]

InSnapshot(t, id) == \E n \in DOMAIN tasks[t].snap : tasks[t].snap[n] = id

BulkImportCompletes ==
    \E q \in requests, resp \in Responses : BulkCallSettles(q, resp)

ProgressInRange ==
    /\ 0 <= importProgress.current
    /\ importProgress.current <= importProgress.total

C12_ProgressMonotonic ==
    [][isImporting =>
          /\ ProgressInRange
          /\ importProgress'.current >= importProgress.current
          /\ BulkImportCompletes => importProgress'.current = importProgress.current + 1
          /\ ~BulkImportCompletes => importProgress'.current = importProgress.current
      ]_vars

\* C13: no record stays importing forever.  If every createItem call
\* eventually resolves or rejects, a record that is importing is later
\* imported or error, or is no longer in the session; so once the operator
\* starts no further import, no record of the session is importing.
IsImporting(id) ==
    \E k \in DOMAIN records : records[k].id = id /\ records[k].status = "importing"

C13_NoRecordStaysImporting ==
    \A id \in RecordIds : IsImporting(id) ~> ~IsImporting(id)

\* Both records of a file went through importing; one call resolved, the
\* other was rejected, and nothing is outstanding.
C13_Witness ==
    /\ requests = {}
    /\ Len(records) = 2
    /\ records[1].status = "imported"
    /\ records[2].status = "error"

\* C14: records are immutable apart from their import result.  The id and
\* the normalized attributes of a record (here its identification, the
\* attribute the session reads) are the same in every state in which the
\* record is in the session: a step leaves the sequence of (id, attributes)
\* as it is, or takes one record out of it (remove), or empties it (clear),
\* or replaces it by the records of a newly decoded file, whose ids are new.
Attributes(r) == [id |-> r.id, identification |-> r.identification]

AttributesOf(rs) == [k \in DOMAIN rs |-> Attributes(rs[k])]

WithoutNth(s, n) == [k \in 1..(Len(s) - 1) |-> IF k < n THEN s[k] ELSE s[k + 1]]

OnlyResultFieldsChange ==
    /\ AttributesOf(records') = AttributesOf(records)
    /\ \A k \in DOMAIN records :
          records'[k] = [records[k] EXCEPT !.status = records'[k].status,
                                           !.error = records'[k].error,
                                           !.importedId = records'[k].importedId]

OneRecordRemoved ==
    \E n \in DOMAIN records : records' = WithoutNth(records, n)

SessionReplaced ==
    /\ now' # now
    /\ \A j \in DOMAIN records, k \in DOMAIN records' : records[j].id # records'[k].id

C14_RecordsImmutable ==
    [][\/ OnlyResultFieldsChange
       \/ OneRecordRemoved
       \/ records' = <<>>
       \/ SessionReplaced
      ]_vars

\* A record with identification b has been imported and still carries it,
\* next to a record whose import failed.
C14_Witness ==
    \E j, k \in DOMAIN records :
        /\ records[j].status = "imported"
        /\ records[j].identification = <<"b">>
        /\ records[j].importedId = 8
        /\ records[k].status = "error"
        /\ records[k].identification = <<"a">>

\* C15: loading a file replaces the session.  When a file load has decoded
\* at least one record, the session is exactly the decoded records in decode
\* order, each pending with no error and no importedId, and no record of the
\* session before the load remains.
FreshlyDecoded(parsed) ==
    /\ Len(records') = Len(parsed)
    /\ \A k \in 1..Len(parsed) :
          /\ records'[k].identification = parsed[k]
          /\ records'[k].status = "pending"
          /\ records'[k].error = EmptyStr
          /\ records'[k].importedId = NoItemId
    /\ \A j \in DOMAIN records, k \in DOMAIN records' : records'[k].id # records[j].id

C15_LoadReplacesSession ==
    [][\A parsed \in ParsedFiles :
          (Len(parsed) > 0 /\ FileParsed(parsed)) => FreshlyDecoded(parsed)
      ]_vars

\* The second file's records (b, then a) are the session, while a
\* createItem call for a record of the first file is still outstanding.
C15_Witness ==
    /\ now = 2
    /\ Len(records) = 2
    /\ records[1] = BuildRecord(1, 2, <<"b">>)
    /\ records[2] = BuildRecord(2, 2, <<"a">>)
    /\ \E q \in requests : q.rec[2] = 1

\* C16: zero records found.  When the decoding of a selected file yields no
\* record, parseError becomes the no-records message naming the format and
\* the encoding that were selected when the file was chosen, the records of
\* the session are left as they are and isLoading is reset; when reading or
\* decoding throws, the same holds with the read-error message.
NamesOptionsOf(h) ==
    parseError' = <<"importMarc.noRecordsFound",
                    <<"importMarc.formats", loadOptions[h].format>>,
                    loadOptions[h].encoding>>

C16_ZeroRecordsFound ==
    [][/\ FileParsed(<<>>) =>
             /\ \E h \in DOMAIN loadOptions :
                   loadOptions' = WithoutLoad(loadOptions, h) /\ NamesOptionsOf(h)
             /\ records' = records
             /\ isLoading' = FALSE
       /\ FileReadFails =>
             /\ parseError' = <<"importMarc.readError">>
             /\ records' = records
             /\ isLoading' = FALSE
      ]_vars

\* A MARCXML / ISO 8859-15 file decoded to nothing after another file had
\* filled the session with two records, which are still there.
C16_Witness ==
    /\ parseError = <<"importMarc.noRecordsFound",
                      <<"importMarc.formats", "marcxml">>, "iso-8859-15">>
    /\ Len(records) = 2
    /\ ~isLoading
    /\ loadOptions = <<>>

\* C18: record identifiers are unique within the session.  No two records
\* of the session have the same id string, so each of the status updates
\* importRecord addresses by id changes at most one record.
Changed(before, after) == {k \in DOMAIN before : after[k] # before[k]}

C18_UniqueIds ==
    /\ \A j, k \in DOMAIN records :
          j # k => IdString(records[j].id) # IdString(records[k].id)
    /\ \A id \in RecordIds, itemId \in ItemIds :
          /\ Cardinality(Changed(records, MarkImporting(records, id))) <= 1
          /\ Cardinality(Changed(records, MarkImported(records, id, itemId))) <= 1
          /\ Cardinality(Changed(records, MarkError(records, id))) <= 1

\* Two records decoded from one file with the same identification: the
\* update addressed to the first one's id left the second one pending.
C18_Witness ==
    /\ Len(records) = 2
    /\ records[1].identification = records[2].identification
    /\ records[1].status = "importing"
    /\ records[2].status = "pending"
    /\ Request(1, records[1].id) \in requests

\* C19: getSubfield(payload, code) is the trimmed value of the first
\* delimiter-marked subfield of the payload whose code is `code`, and is
\* absent when the payload has no subfield with that code.  A subfield is
\* marked by the delimiter: the delimiter, then the code, then the value up
\* to the next delimiter or the end of the payload.
MarksOf(s, code) == {p \in 1..(Len(s) - 1) : s[p] = US /\ s[p + 1] = code}

ValueAt(s, p) ==
    LET later == {e \in (p + 1)..Len(s) : s[e] = US}
        stop == IF later = {} THEN Len(s) + 1
                ELSE CHOOSE e \in later : \A f \in later : e <= f
    IN  SubSeq(s, p + 2, stop - 1)

FirstMarkedSubfield(s, code) ==
    LET marks == MarksOf(s, code)
    IN  IF marks = {} THEN Undefined
        ELSE WithoutOuterBlanks(ValueAt(s, CHOOSE p \in marks : \A r \in marks : p <= r))

C19_GetSubfield ==
    (call.fn = "getSubfield" /\ call.done) =>
        call.result = FirstMarkedSubfield(call.fieldData, call.code)

\* C20: UNIMARC priority in the normalizer.  In a field store in which a
\* UNIMARC tag and a MARC21 counterpart of it are both present (200/245,
\* 010/020, 700/100, 210/260/264, 330/520), the attributes of that group are
\* taken from the UNIMARC field only: they are what the normalizer gives
\* for the same store without the MARC21 counterparts, whatever the payloads.
TagGroups ==
    { [unimarc |-> "200", marc21 |-> {"245"}, attributes |-> {"title1", "title2"}],
      [unimarc |-> "010", marc21 |-> {"020"}, attributes |-> {"identification"}],
      [unimarc |-> "700", marc21 |-> {"100"}, attributes |-> {"authors1"}],
      [unimarc |-> "210", marc21 |-> {"260", "264"},
       attributes |-> {"publication_date", "edition_name", "edition_place"}],
      [unimarc |-> "330", marc21 |-> {"520"}, attributes |-> {"abstract_"}] }

Present(rawFields, tag) == rawFields[tag] # <<>>

WithoutTags(rawFields, tags) ==
    [t \in Tags |-> IF t \in tags THEN <<>> ELSE rawFields[t]]

BothPresent(rawFields, g) ==
    /\ Present(rawFields, g.unimarc)
    /\ \E m \in g.marc21 : Present(rawFields, m)

C20_UnimarcPriority ==
    (call.fn = "buildRecordFromFields" /\ call.done) =>
        \A g \in TagGroups :
            BothPresent(call.rawFields, g) =>
                \A a \in g.attributes :
                    call.record[a] =
                        BuildRecordFromFields(WithoutTags(call.rawFields, g.marc21))[a]

\* C17: title-filter invariant.  Every record a decoder outputs (the only
\* records that enter the session) has a non-empty title1, and a field
\* store whose title-bearing field (200, or 245 when 200 is absent) has no
\* non-empty $a yields no record, with the ISO 2709 and with the MARCXML
\* decoder.
HasNonEmptySubfield(payload, code) ==
    \E p \in MarksOf(payload, code) : WithoutOuterBlanks(ValueAt(payload, p)) # <<>>

TitleBearingHasA(rawFields) ==
    IF Present(rawFields, "200") THEN HasNonEmptySubfield(rawFields["200"][1], "a")
    ELSE IF Present(rawFields, "245") THEN HasNonEmptySubfield(rawFields["245"][1], "a")
    ELSE FALSE

C17_TitleFilter ==
    (call.fn = "buildRecordFromFields" /\ call.done) =>
        /\ \A n \in DOMAIN call.records :
              call.records[n].title1 # Undefined /\ call.records[n].title1 # <<>>
        /\ ~TitleBearingHasA(call.rawFields) => call.records = <<>>

\* ---------------------------------------------------------------------- C21
\* What parseISO2709 decodes for a record, apart from the index in its id.
C21_Attributes(r) ==
    [media_type |-> r.media_type, raw_fields |-> r.raw_fields, attributes |-> r.attributes]

\* What the decoder returns for a buffer holding that raw record alone.
C21_DecodedAlone(raw) == ParseISO2709(raw \o <<RT>>)

\* A malformed raw record: shorter than the leader, or yielding no title.
C21_Malformed(raw) == Len(raw) < 24 \/ C21_DecodedAlone(raw) = <<>>

C21_WellFormed(raws) ==
    SelectSeq([k \in DOMAIN raws |-> RawSamples[raws[k]]], LAMBDA raw : ~C21_Malformed(raw))

\* C21: for a buffer of well-formed and malformed records in any
\* interleaving, parseISO2709 returns one record per well-formed record, in
\* buffer order, each with the attributes that record decodes to alone.
C21_MalformedIsolated ==
    (call.fn = "parseISO2709" /\ call.done) =>
        LET wellFormed == C21_WellFormed(call.raws)
        IN  /\ Len(call.records) = Len(wellFormed)
            /\ \A n \in DOMAIN wellFormed :
                  C21_Attributes(call.records[n])
                      = C21_Attributes(C21_DecodedAlone(wellFormed[n])[1])

\* A buffer of three raw records was decoded: two different well-formed ones
\* around a malformed one, and two records came out.
C21_Witness ==
    /\ call.fn = "parseISO2709" /\ call.done
    /\ Len(call.raws) = 3
    /\ C21_Malformed(RawSamples[call.raws[2]])
    /\ ~C21_Malformed(RawSamples[call.raws[1]])
    /\ ~C21_Malformed(RawSamples[call.raws[3]])
    /\ call.raws[1] # call.raws[3]
    /\ Len(call.records) = 2

\* ---------------------------------------------------------------------- C22
\* The media type codes by record type: printed text b, video v, audio a,
\* periodical p, computer file c, images i.
C22_Codes ==
    { <<"a", <<"b">>>>, <<"t", <<"b">>>>, <<"g", <<"v">>>>, <<"j", <<"a">>>>, <<"i", <<"a">>>>,
      <<"s", <<"p">>>>, <<"m", <<"c">>>>, <<"k", <<"i">>>>, <<"r", <<"i">>>> }

C22_Expected(leader) ==
    IF Len(leader) <= 6 THEN <<"u">>
    ELSE IF \E pair \in C22_Codes : pair[1] = leader[7]
         THEN (CHOOSE pair \in C22_Codes : pair[1] = leader[7])[2]
         ELSE <<"u">>

\* C22: for every leader, media_type is set, and is the code of the record
\* type at leader[6], or unknown for any other character or when the leader
\* has 6 characters or fewer.
C22_MediaTypeTotal ==
    (call.fn = "media_type" /\ call.done) =>
        /\ call.media_type # Undefined
        /\ call.media_type = C22_Expected(call.leader)

\* The media type was derived from a leader whose record type is t, between
\* two characters that name other types.
C22_Witness ==
    /\ call.fn = "media_type" /\ call.done
    /\ Len(call.leader) = 8
    /\ call.leader[6] = "g" /\ call.leader[7] = "t" /\ call.leader[8] = "x"
    /\ call.media_type = <<"b">>

\* ---------------------------------------------------------------------- C23
\* C23: for every field store, the normalized record's publication_date is
\* absent or a string of exactly 4 decimal digits.
C23_DateShape ==
    (call.fn = "buildRecordFromFields" /\ call.done) =>
        \/ call.record.publication_date = Undefined
        \/ /\ Len(call.record.publication_date) = 4
           /\ \A p \in 1..4 : IsDigit(call.record.publication_date[p])

\* ---------------------------------------------------------------------- C24
\* C24: for every buffer given to parseISO2709, no payload in the field store
\* of a decoded record contains the record terminator or the field
\* terminator, whatever the directory entries declare.
C24_NoFramingInPayload ==
    (call.fn = "parseISO2709" /\ call.done) =>
        \A n \in DOMAIN call.records :
            \A e \in DOMAIN call.records[n].raw_fields :
                \A p \in DOMAIN call.records[n].raw_fields[e].data :
                    call.records[n].raw_fields[e].data[p] \notin {RT, FT}

\* ---------------------------------------------------------------------- C25
\* The createItem calls issued by a step.
NewCalls == requests' \ requests

\* createItem has been called for the record `id` of the session: its status
\* leaves pending in importRecord only, right before the call, and never
\* returns to pending.
AlreadyCalled(id) == \E k \in DOMAIN records : records[k].id = id /\ ~IsPending(records[k])

\* C25: createItem is called at most once for any record of the session,
\* also when scan imports and bulk runs overlap: no step calls createItem
\* for a record it was already called for, and no two outstanding calls
\* target the same record.
C25_NoDuplicateCreate ==
    [][/\ \A q \in NewCalls : ~AlreadyCalled(q.rec)
       /\ \A q1, q2 \in requests' : q1.rec = q2.rec => q1 = q2]_vars

\* ---------------------------------------------------------------------- C26
\* C26: createItem is only called for a record that is in the session at the
\* moment of the call; a record removed or cleared after a bulk run started
\* is not submitted by that run.
C26_NoDiscardedImport ==
    [][\A q \in NewCalls : \E k \in DOMAIN records : records[k].id = q.rec]_vars

\* ---------------------------------------------------------------------- C27
\* C27: in every reachable state at most one record has status importing and
\* at most one createItem call is outstanding.
C27_OneInFlight ==
    /\ Cardinality({k \in DOMAIN records : records[k].status = "importing"}) <= 1
    /\ Cardinality(requests) <= 1

\* ---------------------------------------------------------------------- C28
\* C28: in every reachable state a record has an importedId exactly when its
\* status is imported, and an error message exactly when its status is
\* error; pending and importing records carry neither.
C28_ResultAgreesWithStatus ==
    \A k \in DOMAIN records :
        /\ records[k].importedId # NoItemId <=> records[k].status = "imported"
        /\ records[k].error # EmptyStr <=> records[k].status = "error"

\* ---------------------------------------------------------------------- C29
\* C29: in every reachable state in which scan mode is active and no import
\* is in flight, the session holds at least one pending record.
C29_ScanModeHasPending ==
    (scanMode /\ requests = {}) => PendingCount(records) > 0

\* ---------------------------------------------------------------------- C30
\* Submitting s makes handleScanSubmit select a pending record with the
\* identification of record k, at k or before it.
C30_Reaches(k, s) ==
    LET isbn == WithoutOuterBlanks(s)
        m == FindMatch(records, isbn)
    IN  /\ isbn # <<>>
        /\ m \in 1..k
        /\ PendingWith(m, records[k].identification)

\* A scan submit whose trimmed input is the identification of a pending
\* record starts the import of the first such record.
C30_SubmitImports ==
    \A k \in DOMAIN records :
        (/\ HandleScanSubmit
         /\ WithoutOuterBlanks(scanInput) # <<>>
         /\ PendingWith(k, WithoutOuterBlanks(scanInput))
         /\ \A j \in 1..(k - 1) : ~PendingWith(j, WithoutOuterBlanks(scanInput)))
            => /\ records'[k].status = "importing"
               /\ \E q \in requests' \ requests : q.rec = records[k].id

\* C30, as claimed: in scan mode, for every pending record there is a scan
\* input whose submission imports that record or a pending record before
\* it with the same identification.
C30_EveryPendingScannable ==
    /\ [](ScanCardShown =>
            \A k \in DOMAIN records :
                IsPending(records[k]) => \E s \in ScanInputs : C30_Reaches(k, s))
    /\ [][C30_SubmitImports]_vars

\* C30, amended: in scan mode, for every pending record that has a non-empty
\* identification there is a scan input whose submission imports that
\* record or a pending record before it with the same identification, so
\* that scans alone bring the number of such records to zero.
C30_IdentifiedScannable ==
    /\ [](ScanCardShown =>
            \A k \in DOMAIN records :
                (IsPending(records[k]) /\ Truthy(records[k].identification))
                    => \E s \in ScanInputs : C30_Reaches(k, s))
    /\ [][C30_SubmitImports]_vars

\* Two records with the same identification were scanned one after the
\* other: the first is imported, the second is being imported by a scan
\* submit, and no pending record is left.
C30_Witness ==
    /\ scanMode
    /\ Len(records) = 2
    /\ records[1].identification = <<"b">>
    /\ records[2].identification = <<"b">>
    /\ records[1].status = "imported"
    /\ records[2].status = "importing"
    /\ PendingCount(records) = 0
    /\ \E t \in 1..MaxTasks :
           /\ tasks[t].kind = "scan"
           /\ tasks[t].snap = <<records[2].id>>
           /\ requests = {Request(t, records[2].id)}

=============================================================================
